---- MODULE Spec2Model ----
(***************************************************************************)
(* A model of the MCP tool server of grokuku/MCP_GenImage.                 *)
(*                                                                         *)
(*   Spec         the JSON-RPC endpoint, the background tasks it           *)
(*                schedules, the websocket registry and the generation log *)
(*                (app/api/mcp_routes.py)                                  *)
(*   SpecSelect   _select_best_comfyui_instance with its concurrent probes *)
(*   SpecResolve  the render-type resolution fold of run_generation_task   *)
(*   SpecGenerate one run of run_generation_task, from prompt enhancement   *)
(*                to the workflow's result                                 *)
(*   SpecAdmin    the admin operations on RenderType rows                  *)
(*                                                                         *)
(* Python's None is the string "None"; a websocket or stream that does not *)
(* exist is 0.                                                             *)
(***************************************************************************)
EXTENDS Integers, Sequences, FiniteSets, TLC

\* ------------------------------------------------------------------ bounds
\* uuid4 stream ids handed out by mcp_endpoint (one per accepted tools/call)
MaxStreams == 1
\* websocket connections clients open on /ws/stream/{stream_id}
MaxSockets == 2

\* ComfyUIInstance rows
MaxInstances == 3
\* largest queue size a probe reports
MaxQueue == 2
\* longest style_names list of a request
MaxStyleNames == 2
\* POSTs of a workflow to /prompt that one task is followed through
MaxSubmissions == 2
\* RenderType rows
MaxRenderTypes == 3

None == "None"

VARIABLES
    instances,           \* ComfyUIInstance rows
    selection,           \* one call of _select_best_comfyui_instance
    styles,              \* Style rows
    resolution,          \* one run of the render-type resolution fold
    render_types,        \* RenderType rows
    gen,                 \* one run of run_generation_task, statement by statement
    admin_log,           \* the admin operation carried out last
    response,            \* what mcp_endpoint answered to the last POST /mcp
    nstreams,            \* number of stream ids generated so far
    tasks,               \* stream id -> the background task scheduled for it
    active_connections,  \* WebSocketManager.active_connections: stream id -> socket
    sockets,             \* socket -> its stream id, connection state and inbox
    published,           \* stream id -> messages handed to send_mcp_message
    generation_logs,     \* GenerationLog rows, in insertion order
    catalog,             \* the configuration tools/list reads, and its answers
    assembly,            \* one assembly of the final prompts
    execution,           \* one run of run_workflow_and_get_image
    history              \* one call of _get_history

streamVars == <<response, nstreams, tasks, active_connections, sockets,
                published, generation_logs>>

moreVars == <<catalog, assembly, execution, history>>

otherVars == <<instances, selection, styles, resolution, render_types, gen,
               admin_log, moreVars>>

\* No admin operation yet.
NoAdmin == [op |-> "none", id |-> 0]

vars == <<streamVars, otherVars>>

StreamIds == 1..MaxStreams
SocketIds == 1..MaxSockets

\* ---------------------------------------------------------------- messages
StreamChunkResult(s) ==
    [method |-> "stream/chunk", stream_id |-> s, kind |-> "result", message |-> ""]

\* Faulty variant: the except block announces the end instead of the error.
StreamChunkError_AsEnd(s, msg) ==
    [method |-> "stream/end", stream_id |-> s, kind |-> "end", message |-> ""]

StreamChunkError(s, msg) ==
    [method |-> "stream/chunk", stream_id |-> s, kind |-> "error", message |-> msg]

StreamEnd(s) ==
    [method |-> "stream/end", stream_id |-> s, kind |-> "end", message |-> ""]

\* ------------------------------------------------------------ HTTP requests
\* A POST /mcp as the handler sees it.  body: whether request.json() and
\* JsonRpcRequest.model_validate succeed; params_valid / args_valid: whether
\* ToolCallParams and the tool's own schema accept the params; style_names: the
\* validated generate_image argument (Optional[List[str]]: null is accepted);
\* db_fails: the handler's database session raises on its first query;
\* prompt_task: how run_prompt_generator_task ends.
Tools == {"generate_image", "upscale_image", "describe_image", "generate_prompt", "unknown_tool"}
StreamTools == {"generate_image", "upscale_image", "describe_image"}

Req(body, method, pv, tool, av, sn, dbf, pt) ==
    [body |-> body, method |-> method, params_valid |-> pv, tool |-> tool,
     args_valid |-> av, style_names |-> sn, db_fails |-> dbf, prompt_task |-> pt]

Requests ==
    {Req("unparsable", None, FALSE, None, FALSE, None, FALSE, None)}
    \cup {Req("envelope", "resources/list", FALSE, None, FALSE, None, FALSE, None)}
    \cup {Req("envelope", "tools/list", FALSE, None, FALSE, None, dbf, None) : dbf \in BOOLEAN}
    \cup {Req("envelope", "tools/call", FALSE, None, FALSE, None, FALSE, None)}
    \cup {Req("envelope", "tools/call", TRUE, tool, FALSE, None, FALSE, None) : tool \in Tools}
    \cup {Req("envelope", "tools/call", TRUE, "generate_prompt", TRUE, None, dbf, pt) :
            dbf \in BOOLEAN, pt \in {"ok", "ValueError", "OllamaError"}}
    \cup {Req("envelope", "tools/call", TRUE, "generate_image", TRUE, sn, dbf, None) :
            sn \in {None, "[]", "[style]"}, dbf \in BOOLEAN}
    \cup {Req("envelope", "tools/call", TRUE, tool, TRUE, "[]", dbf, None) :
            tool \in {"upscale_image", "describe_image"}, dbf \in BOOLEAN}

\* The tools/call requests that pass validation and setup: those answered with
\* stream/start.
StreamRequests ==
    {r \in Requests : r.method = "tools/call" /\ r.params_valid /\ r.args_valid
                        /\ r.tool \in StreamTools /\ ~r.db_fails}

\* ------------------------------------------------------- Python exceptions
\* pydantic's ValidationError derives from ValueError; the others derive from
\* Exception only.
IsInstance(exc, cls) ==
    \/ exc = cls
    \/ cls = "Exception" /\ exc # None
    \/ cls = "ValueError" /\ exc = "ValidationError"

\* What the body of the tools/call try block raises before a task is scheduled
\* (None: nothing), statement by statement.
ToolCallRaises(r) ==
    IF ~r.params_valid THEN "ValidationError"
    ELSE IF r.tool = "generate_prompt" THEN
        IF ~r.args_valid THEN "ValidationError"
        ELSE IF r.db_fails THEN "SQLAlchemyError"
        ELSE IF r.prompt_task = "ok" THEN None
        ELSE r.prompt_task
    ELSE IF r.tool \in StreamTools THEN
        IF ~r.args_valid THEN "ValidationError"
        ELSE IF r.db_fails THEN "SQLAlchemyError"
        ELSE None
    ELSE "ValueError"

\* Faulty variant: the ValueError clause placed before the ValidationError one.
ExceptCode_ValueErrorFirst(exc) ==
    IF IsInstance(exc, "ValueError") THEN -32000
    ELSE IF IsInstance(exc, "ValidationError") THEN -32602
    ELSE -32603

\* The except chain closing the tools/call try block.
ExceptCode(exc) ==
    IF IsInstance(exc, "ValidationError") THEN -32602
    ELSE IF IsInstance(exc, "ValueError") THEN -32000
    ELSE -32603

\* JSONResponse bodies.  raised is the exception the handler met (None when it
\* met none); an "unhandled" response is the exception leaving the handler.
Responded(r, kind, code, sid, raised) ==
    [body |-> r.body, method |-> r.method, tool |-> r.tool, kind |-> kind,
     code |-> code, stream_id |-> sid, raised |-> raised]


create_error_response(r, code, raised) == Responded(r, "error", code, 0, raised)

\* --------------------------------------------------------- background tasks
\* Faulty variant: log_data starting out as a success.
InitialLogData_Success == [status |-> "SUCCESS", error_message |-> None]

\* log_data of run_generation_task, as built before its try block.
InitialLogData == [status |-> "FAILED", error_message |-> None]

\* log_error: _log_generation_result caught a failing insert (its CRITICAL line).
\* db: the task's SessionLocal(), "none" before the task has opened it.
NoTask ==
    [tool |-> None, style_names |-> None, pc |-> "absent",
     log_data |-> InitialLogData, log_error |-> FALSE, db |-> "none"]

\* Faulty variant: stream/start is answered without a task being added.
ScheduledTask_Forgotten(r) ==
    [tool |-> None, style_names |-> None, pc |-> "absent",
     log_data |-> InitialLogData, log_error |-> FALSE, db |-> "none"]

\* background_tasks.add_task(task_function, **task_kwargs)
ScheduledTask(r) ==
    [tool |-> r.tool, style_names |-> r.style_names, pc |-> "scheduled",
     log_data |-> InitialLogData, log_error |-> FALSE, db |-> "none"]

\* ", ".join(getattr(args, 'style_names', [])) stands before the try block: a
\* generate_image call whose style_names is null raises TypeError there.
\* UpscaleImageParams has no style_names, DescribeImageParams' task builds no
\* log_data.
LogDataRaises(task) ==
    task.tool = "generate_image" /\ task.style_names = None

\* What the try block of a task can raise: str(e), None when it runs through.
\* run_generation_task: ValueError for what the task itself rejects (no default
\* render type, unknown render type, no usable server, missing workflow file or
\* node, OUTPUT_URL_BASE unset), ComfyUIError for what the backend client raises.
\* upscale_image calls upload_image_from_url with a keyword the method does not
\* take: that path ends in TypeError before anything is sent to the backend.
\* run_description_task: ValueError (tool not configured, instance inactive, no
\* template, download failed); it calls describe_image with the keyword
\* image_base_64 where the method takes image_base64, so a call that gets that
\* far ends in TypeError before anything is sent to the LLM.
BodyOutcomes(tool) ==
    IF tool = "generate_image" THEN {None, "ValueError", "ComfyUIError"}
    ELSE IF tool = "upscale_image" THEN {"ValueError", "TypeError"}
    ELSE {"ValueError", "TypeError"}

Raisable == {None, "ValueError", "ComfyUIError", "TypeError", "OllamaError"}

\* log_data when the try block ends: status SUCCESS is set right before the
\* result chunk, error_message in the except block.
LogDataAfter(log_data, raised) ==
    IF raised = None THEN [log_data EXCEPT !.status = "SUCCESS"]
    ELSE [log_data EXCEPT !.error_message = raised]

\* The stream/chunk a task publishes when its try block ends.
ChunkFor(s, raised) ==
    IF raised = None THEN StreamChunkResult(s) ELSE StreamChunkError(s, raised)

\* Which tasks write a GenerationLog row in their finally block.
WritesLog(tool) == tool \in {"generate_image", "upscale_image"}

\* The row _log_generation_result stores (stream is not a column: it names the
\* request the row belongs to).
LogRow(s, task) ==
    [stream |-> s, tool |-> task.tool, status |-> task.log_data.status,
     error_message |-> task.log_data.error_message]

\* Faulty variant: _log_generation_result without its except clause.
LogResultRaises_Propagates(db_ok) == ~db_ok

\* Whether _log_generation_result raises into the finally block when the
\* insert fails: its except Exception clause logs and returns.
LogResultRaises(db_ok) == FALSE

\* --------------------------------------------------------- WebSocketManager

\* manager.disconnect(stream_id)
Disconnected(conns, s) == [conns EXCEPT ![s] = 0]

\* manager.send_mcp_message(stream_id, message): nothing without a registered
\* socket; send_json on a socket the client has closed raises, and the except
\* branch unregisters the stream id.
SendDelivers(s) ==
    active_connections[s] # 0 /\ sockets[active_connections[s]].state = "open"

\* Faulty variant: a publish that waits until a subscriber is registered.
SendBlocks_UntilSubscribed(s) == active_connections[s] = 0

\* Whether await manager.send_mcp_message(...) holds the task back: without a
\* registered socket it returns at once, and send_json is tried once.
SendBlocks(s) == FALSE

SocketsAfterSend(socks, s, msg) ==
    IF SendDelivers(s)
    THEN [socks EXCEPT ![active_connections[s]].inbox = Append(@, msg)]
    ELSE socks

ConnectionsAfterSend(conns, s) ==
    IF conns[s] # 0 /\ sockets[conns[s]].state # "open"
    THEN Disconnected(conns, s)
    ELSE conns

\* ------------------------------------------------------------------ actions
\* POST /mcp (mcp_endpoint), the whole handler.
McpEndpoint(r) ==
    LET exc == ToolCallRaises(r)
        s == nstreams + 1
    IN
    /\ IF r.body = "unparsable" THEN
            /\ response' = create_error_response(r, -32700, "ParseError")
            /\ UNCHANGED <<nstreams, tasks>>
       ELSE IF r.method = "tools/list" THEN
            /\ response' = IF r.db_fails
                           THEN Responded(r, "unhandled", 0, 0, "SQLAlchemyError")
                           ELSE Responded(r, "result", 0, 0, None)
            /\ UNCHANGED <<nstreams, tasks>>
       ELSE IF r.method = "tools/call" THEN
            IF exc # None THEN
                /\ response' = create_error_response(r, ExceptCode(exc), exc)
                /\ UNCHANGED <<nstreams, tasks>>
            ELSE IF r.tool = "generate_prompt" THEN
                /\ response' = Responded(r, "result", 0, 0, None)
                /\ UNCHANGED <<nstreams, tasks>>
            ELSE
                /\ nstreams < MaxStreams
                /\ nstreams' = s
                /\ tasks' = [tasks EXCEPT ![s] = ScheduledTask(r)]
                /\ response' = Responded(r, "stream/start", 0, s, None)
       ELSE
            /\ response' = create_error_response(r, -32601, None)
            /\ UNCHANGED <<nstreams, tasks>>
    /\ UNCHANGED <<active_connections, sockets, published, generation_logs>>
    /\ UNCHANGED otherVars

\* A background task starts: db = SessionLocal() and, in run_generation_task,
\* log_data; an exception here is outside the try block and ends the task.
\* The join is the last use of style_names this model follows, so the value
\* is not carried further.
TaskStart(s) ==
    /\ tasks[s].pc = "scheduled"
    /\ tasks' = [tasks EXCEPT ![s].pc =
                    IF LogDataRaises(tasks[s]) THEN "crashed" ELSE "running",
                              ![s].style_names = None,
                              ![s].db = "open"]
    /\ UNCHANGED <<response, nstreams, active_connections, sockets, published,
                   generation_logs>>
    /\ UNCHANGED otherVars

\* The try block runs to its end or to an exception, and the task publishes
\* its stream/chunk (the last statement of the try block, or the except block).
TaskBody(s, raised) ==
    /\ tasks[s].pc = "running"
    /\ raised \in BodyOutcomes(tasks[s].tool)
    /\ ~SendBlocks(s)
    /\ tasks' = [tasks EXCEPT ![s].pc = "finally",
                              ![s].log_data = IF WritesLog(tasks[s].tool)
                                              THEN LogDataAfter(@, raised) ELSE @]
    /\ published' = [published EXCEPT ![s] = Append(@, ChunkFor(s, raised))]
    /\ sockets' = SocketsAfterSend(sockets, s, ChunkFor(s, raised))
    /\ active_connections' = ConnectionsAfterSend(active_connections, s)
    /\ UNCHANGED <<response, nstreams, generation_logs>>
    /\ UNCHANGED otherVars

\* The finally block up to its await: _log_generation_result (which swallows a
\* failing insert) in run_generation_task, then stream/end.  An exception out
\* of _log_generation_result would end the task there.
TaskFinally(s, db_ok) ==
    /\ tasks[s].pc = "finally"
    /\ IF WritesLog(tasks[s].tool) /\ LogResultRaises(db_ok) THEN
            /\ tasks' = [tasks EXCEPT ![s].pc = "crashed", ![s].log_error = TRUE]
            /\ UNCHANGED <<generation_logs, published, sockets, active_connections>>
       ELSE
            /\ ~SendBlocks(s)
            /\ generation_logs' =
                  IF WritesLog(tasks[s].tool) /\ db_ok
                  THEN Append(generation_logs, LogRow(s, tasks[s]))
                  ELSE generation_logs
            /\ published' = [published EXCEPT ![s] = Append(@, StreamEnd(s))]
            /\ sockets' = SocketsAfterSend(sockets, s, StreamEnd(s))
            /\ active_connections' = ConnectionsAfterSend(active_connections, s)
            /\ tasks' = [tasks EXCEPT ![s].pc = "teardown",
                                      ![s].log_error = WritesLog(tasks[s].tool) /\ ~db_ok]
    /\ UNCHANGED <<response, nstreams>>
    /\ UNCHANGED otherVars

\* The rest of the finally block: manager.disconnect(stream_id); db.close().
TaskTeardown(s) ==
    /\ tasks[s].pc = "teardown"
    /\ active_connections' = Disconnected(active_connections, s)
    /\ tasks' = [tasks EXCEPT ![s].pc = "done", ![s].db = "closed"]
    /\ UNCHANGED <<response, nstreams, sockets, published, generation_logs>>
    /\ UNCHANGED otherVars

\* A client opens /ws/stream/{s}: websocket_endpoint up to its receive loop
\* (manager.connect).  Clients know the ids stream/start announced.
WsConnect(w, s) ==
    /\ sockets[w].state = "unused"
    /\ \A v \in SocketIds : v < w => sockets[v].state # "unused"
    /\ s <= nstreams
    /\ sockets' = [sockets EXCEPT ![w] = [stream |-> s, state |-> "open", inbox |-> <<>>]]
    /\ active_connections' = [active_connections EXCEPT ![s] = w]
    /\ UNCHANGED <<response, nstreams, tasks, published, generation_logs>>
    /\ UNCHANGED otherVars

\* The client closes its end (what it had received goes with it); the handler
\* is still parked in receive_text.
WsClientClose(w) ==
    /\ sockets[w].state = "open"
    /\ sockets' = [sockets EXCEPT ![w].state = "closed", ![w].inbox = <<>>]
    /\ UNCHANGED <<response, nstreams, tasks, active_connections, published,
                   generation_logs>>
    /\ UNCHANGED otherVars

\* websocket_endpoint leaves its loop on WebSocketDisconnect: the finally block
\* calls manager.disconnect(stream_id).
WsEndpointExit(w) ==
    /\ sockets[w].state = "closed"
    /\ active_connections' = Disconnected(active_connections, sockets[w].stream)
    /\ sockets' = [sockets EXCEPT ![w] = [stream |-> 0, state |-> "gone", inbox |-> <<>>]]
    /\ UNCHANGED <<response, nstreams, tasks, published, generation_logs>>
    /\ UNCHANGED otherVars

StreamInit ==
    /\ response = [body |-> None, method |-> None, tool |-> None, kind |-> "none", code |-> 0, stream_id |-> 0, raised |-> None]
    /\ nstreams = 0
    /\ tasks = [s \in StreamIds |-> NoTask]
    /\ active_connections = [s \in StreamIds |-> 0]
    /\ sockets = [w \in SocketIds |-> [stream |-> 0, state |-> "unused", inbox |-> <<>>]]
    /\ published = [s \in StreamIds |-> <<>>]
    /\ generation_logs = <<>>

OtherIdle ==
    /\ instances = <<>>
    /\ selection = <<>>
    /\ styles = <<>>
    /\ resolution = <<>>
    /\ render_types = <<>>
    /\ gen = <<>>
    /\ admin_log = NoAdmin
    /\ catalog = <<>>
    /\ assembly = <<>>
    /\ execution = <<>>
    /\ history = <<>>

Init == StreamInit /\ OtherIdle

Next ==
    \/ \E r \in StreamRequests : McpEndpoint(r)
    \/ \E s \in StreamIds : TaskStart(s)
    \/ \E s \in StreamIds, raised \in Raisable : TaskBody(s, raised)
    \/ \E s \in StreamIds, db_ok \in BOOLEAN : TaskFinally(s, db_ok)
    \/ \E s \in StreamIds : TaskTeardown(s)
    \/ \E w \in SocketIds, s \in StreamIds : WsConnect(w, s)
    \/ \E w \in SocketIds : WsClientClose(w)
    \/ \E w \in SocketIds : WsEndpointExit(w)

Spec == Init /\ [][Next]_vars

\* The dispatcher alone, over every kind of request.
NextDispatch == \E r \in Requests : McpEndpoint(r)

SpecDispatch == Init /\ [][NextDispatch]_vars

\* The dispatcher over every kind of request, next to clients that open and
\* close websockets on the announced stream ids.
NextCalls ==
    \/ \E r \in Requests : McpEndpoint(r)
    \/ \E w \in SocketIds, s \in StreamIds : WsConnect(w, s)
    \/ \E w \in SocketIds : WsClientClose(w)
    \/ \E w \in SocketIds : WsEndpointExit(w)

SpecCalls == Init /\ [][NextCalls]_vars

\* ======================================================= instance selection
InstanceIds == 1..MaxInstances

\* The render type name an instance may list as compatible.
SelectRenderTypes == {"rtA"}

\* An id without a row.
NoInstance == [exists |-> FALSE, is_active |-> FALSE, compatible |-> {}]

InstanceConfigs ==
    [InstanceIds -> {NoInstance} \cup
                    [exists : {TRUE}, is_active : BOOLEAN,
                     compatible : SUBSET SelectRenderTypes]]

RECURSIVE IdsFrom(_, _)
\* The ids of S from i upwards, ascending: the order a query returns rows in.
IdsFrom(S, i) ==
    IF i > MaxInstances THEN <<>>
    ELSE IF i \in S THEN <<i>> \o IdsFrom(S, i + 1)
    ELSE IdsFrom(S, i + 1)

\* Faulty variant: the query without its is_active filter.
get_all_active_comfyui_instances_Unfiltered ==
    IdsFrom({i \in InstanceIds : instances[i].exists}, 1)

\* crud.get_all_active_comfyui_instances(db)
get_all_active_comfyui_instances ==
    IdsFrom({i \in InstanceIds : instances[i].exists /\ instances[i].is_active}, 1)

\* compatible_instances of _select_best_comfyui_instance
CompatibleInstances(active, render_type_name) ==
    SelectSeq(active, LAMBDA i :
        render_type_name = None \/ render_type_name \in instances[i].compatible)

\* One element of queue_sizes: (instance, size), size float('inf') for a probe
\* that met ComfyUIConnectionError; "pending" while the probe runs.
SizeEntry(inst, n) == [instance |-> inst, kind |-> "size", size |-> n]
InfEntry(inst) == [instance |-> inst, kind |-> "inf", size |-> 0]

\* Faulty variant: results collected in the order the probes complete.
GatherSlot_Completion(i, k) == k

\* asyncio.gather returns the results in the order of its arguments: the probe
\* of candidate i, the k-th to complete, fills slot i.
GatherSlot(i, k) == i

RECURSIVE MinScan(_, _, _)
\* min(valid_queues, key=...) scans left to right and keeps the first smallest.
MinScan(q, i, best) ==
    IF i > Len(q) THEN best
    ELSE MinScan(q, i + 1, IF q[i].size < q[best].size THEN i ELSE best)

PyMin(q) == q[MinScan(q, 2, 1)]

ValidQueues(queue_sizes) == SelectSeq(queue_sizes, LAMBDA e : e.kind # "inf")


\* _select_best_comfyui_instance up to the gather: the candidates, or the
\* ValueError of an empty list.  error_args: the values the message is
\* formatted with.
SelectStart(render_type_name) ==
    LET active == get_all_active_comfyui_instances
        compatible == CompatibleInstances(active, render_type_name)
    IN
    /\ selection.pc = "idle"
    /\ selection' =
          IF active = <<>> THEN
              [selection EXCEPT !.pc = "raised", !.render_type = render_type_name,
                                !.error = "ValueError: No active ComfyUI servers configured."]
          ELSE IF compatible = <<>> THEN
              [selection EXCEPT !.pc = "raised", !.render_type = render_type_name,
                                !.error = "ValueError: No active server is compatible with render type.",
                                !.error_args = <<render_type_name>>]
          ELSE
              [selection EXCEPT !.pc = "probing", !.render_type = render_type_name,
                                !.candidates = compatible,
                                !.pending = DOMAIN compatible,
                                !.queue_sizes = [k \in DOMAIN compatible |-> [instance |-> 0, kind |-> "pending", size |-> 0]]]
    /\ UNCHANGED <<instances, styles, resolution, render_types, gen, admin_log, streamVars, moreVars>>

ProbeSlot(i) ==
    GatherSlot(i, Len(selection.candidates) - Cardinality(selection.pending) + 1)

\* The probe of candidate i returns: client.get_queue_size() answered n.
ProbeReturns(i, n) ==
    /\ selection.pc = "probing"
    /\ i \in selection.pending
    /\ selection' = [selection EXCEPT
          !.pending = @ \ {i},
          !.queue_sizes[ProbeSlot(i)] = SizeEntry(selection.candidates[i], n)]
    /\ UNCHANGED <<instances, styles, resolution, render_types, gen, admin_log, streamVars, moreVars>>

\* The probe of candidate i meets ComfyUIConnectionError (httpx.RequestError or
\* HTTPStatusError inside get_queue_size) and returns (instance, inf).
ProbeConnectionError(i) ==
    /\ selection.pc = "probing"
    /\ i \in selection.pending
    /\ selection' = [selection EXCEPT
          !.pending = @ \ {i},
          !.queue_sizes[ProbeSlot(i)] = InfEntry(selection.candidates[i])]
    /\ UNCHANGED <<instances, styles, resolution, render_types, gen, admin_log, streamVars, moreVars>>

\* The probe of candidate i raises something else: response.json() on a body
\* that is not JSON, or data.get on JSON that is no object.  get_queue_size
\* catches only the httpx errors and the probe only ComfyUIConnectionError, so
\* gather raises it into _select_best_comfyui_instance at once.
ProbeOtherError(i) ==
    /\ selection.pc = "probing"
    /\ i \in selection.pending
    /\ selection' = [selection EXCEPT !.pc = "raised", !.pending = @ \ {i},
                                      !.error = "JSONDecodeError"]
    /\ UNCHANGED <<instances, styles, resolution, render_types, gen, admin_log, streamVars, moreVars>>

\* The gather is complete: valid_queues, then the ValueError or the minimum.
SelectFinish ==
    LET valid == ValidQueues(selection.queue_sizes) IN
    /\ selection.pc = "probing"
    /\ selection.pending = {}
    /\ selection' =
          IF valid = <<>> THEN
              [selection EXCEPT !.pc = "raised",
                                !.error = "ValueError: Could not connect to any compatible ComfyUI servers."]
          ELSE
              [selection EXCEPT !.pc = "returned", !.selected = PyMin(valid).instance]
    /\ UNCHANGED <<instances, styles, resolution, render_types, gen, admin_log, streamVars, moreVars>>

\* crud.toggle_comfyui_instance_active_status.  The admin operations on
\* instances are followed while no selection is under way: a selection reads
\* the table once, when it starts.
ToggleInstanceActive(i) ==
    /\ selection.pc = "idle"
    /\ instances[i].exists
    /\ instances' = [instances EXCEPT ![i].is_active = ~@]
    /\ admin_log' = [op |-> "toggle", id |-> i]
    /\ UNCHANGED <<selection, styles, resolution, render_types, gen, streamVars, moreVars>>

\* crud.delete_comfyui_instance
DeleteInstance(i) ==
    /\ selection.pc = "idle"
    /\ instances[i].exists
    /\ instances' = [instances EXCEPT ![i] = NoInstance]
    /\ admin_log' = [op |-> "delete", id |-> i]
    /\ UNCHANGED <<selection, styles, resolution, render_types, gen, streamVars, moreVars>>

\* crud.update_comfyui_instance: the compatible render types are replaced.
UpdateInstance(i, compatible) ==
    /\ selection.pc = "idle"
    /\ instances[i].exists
    /\ instances' = [instances EXCEPT ![i].compatible = compatible]
    /\ admin_log' = [op |-> "update", id |-> i]
    /\ UNCHANGED <<selection, styles, resolution, render_types, gen, streamVars, moreVars>>

\* crud.create_comfyui_instance: a new row, active by the column's default,
\* under the lowest id that has no row.
CreateInstance(i, compatible) ==
    /\ selection.pc = "idle"
    /\ ~instances[i].exists
    /\ \A j \in InstanceIds : j < i => instances[j].exists
    /\ instances' = [instances EXCEPT
          ![i] = [exists |-> TRUE, is_active |-> TRUE, compatible |-> compatible]]
    /\ admin_log' = [op |-> "create", id |-> i]
    /\ UNCHANGED <<selection, styles, resolution, render_types, gen, streamVars, moreVars>>

InitSelect ==
    /\ StreamInit
    /\ instances \in InstanceConfigs
    /\ selection = [pc |-> "idle", render_type |-> None, candidates |-> <<>>, pending |-> {}, queue_sizes |-> <<>>, selected |-> 0, error |-> None, error_args |-> <<>>]
    /\ styles = <<>>
    /\ resolution = <<>>
    /\ render_types = <<>>
    /\ gen = <<>>
    /\ admin_log = NoAdmin
    /\ catalog = <<>>
    /\ assembly = <<>>
    /\ execution = <<>>
    /\ history = <<>>

NextSelect ==
    \/ \E rt \in SelectRenderTypes \cup {None} : SelectStart(rt)
    \/ \E i \in InstanceIds, n \in 0..MaxQueue : ProbeReturns(i, n)
    \/ \E i \in InstanceIds : ProbeConnectionError(i)
    \/ \E i \in InstanceIds : ProbeOtherError(i)
    \/ SelectFinish
    \/ \E i \in InstanceIds : ToggleInstanceActive(i)
    \/ \E i \in InstanceIds : DeleteInstance(i)
    \/ \E i \in InstanceIds, compatible \in SUBSET SelectRenderTypes :
          UpdateInstance(i, compatible)
    \/ \E i \in InstanceIds, compatible \in SUBSET SelectRenderTypes :
          CreateInstance(i, compatible)

SpecSelect == InitSelect /\ [][NextSelect]_vars

\* ==================================================== render type resolution
\* Rows of the render_types table, and a name no row carries.
RenderTypeNames == {"rtA", "rtB"}

\* Rows of the styles table in query order, and a name no row carries.
StyleOrder == <<"s1", "s2">>
StyleNames == {StyleOrder[i] : i \in DOMAIN StyleOrder}

StyleConfigs ==
    [StyleNames -> [compatible_render_types : SUBSET RenderTypeNames,
                    default_render_type : RenderTypeNames \cup {None},
                    is_default : BOOLEAN]]

RECURSIVE SeqsUpTo(_, _)
SeqsUpTo(S, n) ==
    IF n = 0 THEN {<<>>}
    ELSE LET shorter == SeqsUpTo(S, n - 1) IN
         shorter \cup {Append(q, x) : q \in shorter, x \in S}

StyleNameLists == SeqsUpTo((StyleNames \cup {"missing"}), MaxStyleNames)

\* crud.get_default_styles(db), as names
get_default_styles == SelectSeq(StyleOrder, LAMBDA n : styles[n].is_default)

\* style_names_to_apply: the caller's list, or the default styles when the
\* caller's list is empty and there are default styles.
StyleNamesToApply(style_names) ==
    IF style_names = <<>> /\ get_default_styles # <<>> THEN get_default_styles
    ELSE style_names

\* crud.get_style_by_name(db, name) finds a row
StyleExists(name) == name \in StyleNames

\* Faulty variant: a render type, once selected, is never replaced.
StyleStep_FirstWins(render_type_name, name) ==
    IF StyleExists(name) /\ render_type_name = None
          /\ styles[name].default_render_type # None
    THEN styles[name].default_render_type
    ELSE render_type_name

\* One turn of the loop over style_names_to_apply.
StyleStep(render_type_name, name) ==
    IF ~StyleExists(name) THEN render_type_name
    ELSE IF render_type_name # None
            /\ render_type_name \notin styles[name].compatible_render_types
         THEN (IF styles[name].default_render_type # None
               THEN styles[name].default_render_type
               ELSE render_type_name)
    ELSE IF render_type_name = None /\ styles[name].default_render_type # None
         THEN styles[name].default_render_type
    ELSE render_type_name

RECURSIVE ResolveFold(_, _, _)
ResolveFold(render_type_name, names, i) ==
    IF i > Len(names) THEN render_type_name
    ELSE ResolveFold(StyleStep(render_type_name, names[i]), names, i + 1)


\* The render type part of run_generation_task for generate_image: the loop
\* over the styles, then the default render type and the table lookup.
ResolveRenderType(style_names, render_type, default_rt) ==
    LET applied == StyleNamesToApply(style_names)
        folded == ResolveFold(render_type, applied, 1)
        final == IF folded = None THEN default_rt ELSE folded
        raised == IF folded = None /\ default_rt = None
                      THEN "ValueError: No default render type configured."
                  ELSE IF final \notin RenderTypeNames
                      THEN "ValueError: Render type not found."
                  ELSE None
    IN
    /\ resolution.pc = "idle"
    /\ resolution' = [pc |-> "resolved", style_names |-> style_names,
                      render_type |-> render_type, applied |-> applied,
                      folded |-> folded,
                      render_type_name |-> final, raised |-> raised]
    /\ UNCHANGED <<styles, instances, selection, render_types, gen, admin_log, streamVars, moreVars>>

InitResolve ==
    /\ StreamInit
    /\ instances = <<>>
    /\ selection = <<>>
    /\ styles \in StyleConfigs
    /\ resolution = [pc |-> "idle", style_names |-> <<>>, render_type |-> None, applied |-> <<>>, folded |-> None, render_type_name |-> None, raised |-> None]
    /\ render_types = <<>>
    /\ gen = <<>>
    /\ admin_log = NoAdmin
    /\ catalog = <<>>
    /\ assembly = <<>>
    /\ execution = <<>>
    /\ history = <<>>

NextResolve ==
    \E style_names \in StyleNameLists, render_type \in (RenderTypeNames \cup {None, "rtX"}),
       default_rt \in RenderTypeNames \cup {None} :
        ResolveRenderType(style_names, render_type, default_rt)

SpecResolve == InitResolve /\ [][NextResolve]_vars

\* ====================================================== run_generation_task
\* Prompt text is followed by where it comes from: the caller's argument, the
\* LLM, or a style's template; "" is the empty string.
CallerPrompt == "caller prompt"
CallerNegative == "caller negative prompt"
LlmPositive == "llm positive prompt"
LlmNegative == "llm negative prompt"
StyleTemplate == "style template"
StyleNegativeTemplate == "style negative template"

\* What the task is given and what it finds configured.  ollama_setting: the
\* PROMPT_ENHANCEMENT_* settings ("unset": one of them missing; "not_a_number":
\* an instance id int() rejects); instance_active: the Ollama instance exists
\* and is active; has_style: one existing style is applied;
\* has_input_image_node: the workflow has a node titled MCP_INPUT_IMAGE.
GenInput(tool, ep, os, ia, np, hs, node) ==
    [tool |-> tool, enhance_prompt |-> ep, ollama_setting |-> os,
     instance_active |-> ia, negative_prompt |-> np, has_style |-> hs,
     has_input_image_node |-> node]

GenInputs ==
    {GenInput("generate_image", ep, os, ia, np, hs, TRUE) :
        ep \in BOOLEAN, os \in {"unset", "not_a_number", "set"},
        ia \in BOOLEAN, np \in {"", CallerNegative}, hs \in BOOLEAN}
    \cup {GenInput("upscale_image", FALSE, "unset", FALSE, "", FALSE, node) :
        node \in BOOLEAN}

ResultChunk == [kind |-> "result", code |-> 0, message |-> None]
\* {"error": {"code": -32000, "message": str(e)}}
ErrorChunk(exc) == [kind |-> "error", code |-> -32000, message |-> exc]


IdleGen ==
    [pc |-> "idle", args |-> GenInput(None, FALSE, "unset", FALSE, "", FALSE, FALSE),
     positive_call |-> "not_called", negative_call |-> "not_called",
     final_prompt |-> <<>>, final_negative_prompt |-> <<>>,
     log_data |-> [status |-> "FAILED", error_message |-> None, llm_enhanced |-> FALSE, positive_prompt |-> <<>>, negative_prompt |-> <<>>], raised |-> None, raised_at |-> None,
     chunk |-> [kind |-> "none", code |-> 0, message |-> None], selections |-> 0, submissions |-> 0, logged |-> FALSE]

\* ", ".join(filter(None, parts)): the non-empty parts, in order.
JoinParts(parts) == SelectSeq(parts, LAMBDA x : x # "")

\* The except block of run_generation_task: exception exc met in phase at.
GenFailed(g, exc, at) ==
    [g EXCEPT !.pc = "finally", !.raised = exc, !.raised_at = at,
              !.log_data.error_message = exc, !.chunk = ErrorChunk(exc)]

\* Faulty variant: prompt enhancement without its except OllamaError clause.
EnhanceCatches_Nothing(exc) == FALSE

\* except OllamaError around the two enhancement calls
EnhanceCatches(exc) == exc = "OllamaError"

\* Whether the two enhancement calls are made: generate_image, enhance_prompt
\* set, both settings present, the instance found and active.
EnhanceCalls(a) ==
    /\ a.tool = "generate_image"
    /\ a.enhance_prompt
    /\ a.ollama_setting = "set"
    /\ a.instance_active

\* enhanced_positive_prompt and enhanced_negative_prompt after the enhancement
\* block: each is assigned when its own call returns.
EnhancedPositive(a, pos) ==
    IF EnhanceCalls(a) /\ pos = "ok" THEN LlmPositive ELSE CallerPrompt

EnhancedNegative(a, pos, neg) ==
    IF EnhanceCalls(a) /\ pos = "ok" /\ neg = "ok" THEN LlmNegative
    ELSE a.negative_prompt

\* The task is called.
GenStart(a) ==
    /\ gen.pc = "idle"
    /\ gen' = [gen EXCEPT !.pc = "enhance", !.args = a]
    /\ UNCHANGED <<instances, selection, styles, resolution, render_types, admin_log, streamVars, moreVars>>

\* Prompt enhancement and prompt assembly.  pos and neg are how the two LLM
\* calls end when they are made.
GenEnhance(pos, neg) ==
    LET a == gen.args
        called == EnhanceCalls(a)
        poscall == IF called THEN pos ELSE "not_called"
        negcall == IF called /\ pos = "ok" THEN neg ELSE "not_called"
        failed == IF poscall = "OllamaError" \/ negcall = "OllamaError"
                  THEN "OllamaError" ELSE None
        positive_parts == <<EnhancedPositive(a, pos)>> \o
                          (IF a.has_style THEN <<StyleTemplate>> ELSE <<>>)
        negative_parts == <<EnhancedNegative(a, pos, neg)>> \o
                          (IF a.has_style THEN <<StyleNegativeTemplate>> ELSE <<>>)
        final_prompt == IF a.tool = "generate_image"
                        THEN JoinParts(positive_parts) ELSE <<>>
        final_negative_prompt == IF a.tool = "generate_image"
                                 THEN JoinParts(negative_parts) ELSE <<>>
    IN
    /\ gen.pc = "enhance"
    /\ gen' =
          IF a.tool = "generate_image" /\ a.enhance_prompt
                /\ a.ollama_setting = "not_a_number"
          THEN GenFailed(gen, "ValueError", "enhance")
          ELSE IF failed # None /\ ~EnhanceCatches(failed)
          THEN GenFailed([gen EXCEPT !.positive_call = poscall,
                                     !.negative_call = negcall],
                         failed, "enhance")
          ELSE [gen EXCEPT
                  !.pc = "resolve",
                  !.positive_call = poscall,
                  !.negative_call = negcall,
                  !.final_prompt = final_prompt,
                  !.final_negative_prompt = final_negative_prompt,
                  !.log_data.llm_enhanced = called /\ pos = "ok" /\ neg = "ok",
                  !.log_data.positive_prompt = final_prompt,
                  !.log_data.negative_prompt = final_negative_prompt]
    /\ UNCHANGED <<instances, selection, styles, resolution, render_types, admin_log, streamVars, moreVars>>

\* The render type is resolved and looked up, or a ValueError says why not.
GenResolve(ok) ==
    /\ gen.pc = "resolve"
    /\ gen' = IF ok THEN [gen EXCEPT !.pc = "select"]
              ELSE GenFailed(gen, "ValueError", "resolve")
    /\ UNCHANGED <<instances, selection, styles, resolution, render_types, admin_log, streamVars, moreVars>>

\* _select_best_comfyui_instance is called, once.
GenSelect(ok) ==
    /\ gen.pc = "select"
    /\ gen' = IF ok THEN [gen EXCEPT !.pc = "workflow", !.selections = @ + 1]
              ELSE GenFailed([gen EXCEPT !.selections = @ + 1], "ValueError", "select")
    /\ UNCHANGED <<instances, selection, styles, resolution, render_types, admin_log, streamVars, moreVars>>

\* Faulty variant: the upscale branch neither uploads nor looks for the node.
UpscaleBranchRaises_Skipped(a) == None

\* comfyui_client.upload_image_from_url(image_url=..., server_public_url_base=...):
\* ComfyUIClient.upload_image_from_url(self, image_url) takes no such keyword,
\* so the call raises TypeError before anything is downloaded or uploaded.
UploadImageRaises == "TypeError"

\* The upscale_image branch: the upload, then the check for the
\* MCP_INPUT_IMAGE node.
UpscaleBranchRaises(a) ==
    IF a.tool # "upscale_image" THEN None
    ELSE IF UploadImageRaises # None THEN UploadImageRaises
    ELSE IF ~a.has_input_image_node THEN "ValueError"
    ELSE None

\* The workflow file is loaded and filled in; ok: the file exists and
\* OUTPUT_URL_BASE is configured.
GenWorkflow(ok) ==
    LET exc == UpscaleBranchRaises(gen.args) IN
    /\ gen.pc = "workflow"
    /\ gen' = IF exc # None THEN GenFailed(gen, exc, "upscale_input")
              ELSE IF ~ok THEN GenFailed(gen, "ValueError", "workflow")
              ELSE [gen EXCEPT !.pc = "submit"]
    /\ UNCHANGED <<instances, selection, styles, resolution, render_types, admin_log, streamVars, moreVars>>

\* run_workflow_and_get_image: _queue_prompt POSTs the workflow to /prompt.
GenQueuePrompt(ok) ==
    /\ gen.pc = "submit"
    /\ gen.submissions < MaxSubmissions
    /\ gen' = IF ok THEN [gen EXCEPT !.pc = "waiting", !.submissions = @ + 1]
              ELSE GenFailed([gen EXCEPT !.submissions = @ + 1],
                             "ComfyUIConnectionError", "submit")
    /\ UNCHANGED <<instances, selection, styles, resolution, render_types, admin_log, streamVars, moreVars>>

\* Faulty variant: the workflow is submitted again after a timeout.
AfterTimeout_Resubmit(g) == [g EXCEPT !.pc = "submit"]

\* except TimeoutError: raise WorkflowExecutionError, which leaves
\* run_workflow_and_get_image and reaches the task's except block.
AfterTimeout(g) == GenFailed(g, "WorkflowExecutionError: Generation timed out", "wait")

\* The wait on the backend's websocket under asyncio.timeout(generation_timeout).
GenWait(outcome) ==
    /\ gen.pc = "waiting"
    /\ gen' = CASE outcome = "done" -> [gen EXCEPT !.pc = "collect"]
                [] outcome = "timeout" -> AfterTimeout(gen)
                [] OTHER -> GenFailed(gen, "ComfyUIConnectionError", "wait")
    /\ UNCHANGED <<instances, selection, styles, resolution, render_types, admin_log, streamVars, moreVars>>

\* History, output node, download; then status SUCCESS and the result chunk.
GenCollect(ok) ==
    /\ gen.pc = "collect"
    /\ gen' = IF ok THEN [gen EXCEPT !.pc = "finally", !.log_data.status = "SUCCESS",
                                     !.chunk = ResultChunk]
              ELSE GenFailed(gen, "WorkflowExecutionError", "collect")
    /\ UNCHANGED <<instances, selection, styles, resolution, render_types, admin_log, streamVars, moreVars>>

\* The finally block: the log row, stream/end, disconnect, close.
GenFinally ==
    /\ gen.pc = "finally"
    /\ gen' = [gen EXCEPT !.pc = "done", !.logged = TRUE]
    /\ UNCHANGED <<instances, selection, styles, resolution, render_types, admin_log, streamVars, moreVars>>

InitGenerate ==
    /\ StreamInit
    /\ instances = <<>>
    /\ selection = <<>>
    /\ styles = <<>>
    /\ resolution = <<>>
    /\ render_types = <<>>
    /\ gen = IdleGen
    /\ admin_log = NoAdmin
    /\ catalog = <<>>
    /\ assembly = <<>>
    /\ execution = <<>>
    /\ history = <<>>

NextGenerate ==
    \/ \E a \in GenInputs : GenStart(a)
    \/ \E pos, neg \in {"ok", "OllamaError"} : GenEnhance(pos, neg)
    \/ \E ok \in BOOLEAN : GenResolve(ok)
    \/ \E ok \in BOOLEAN : GenSelect(ok)
    \/ \E ok \in BOOLEAN : GenWorkflow(ok)
    \/ \E ok \in BOOLEAN : GenQueuePrompt(ok)
    \/ \E outcome \in {"done", "timeout", "ws_error"} : GenWait(outcome)
    \/ \E ok \in BOOLEAN : GenCollect(ok)
    \/ GenFinally

SpecGenerate == InitGenerate /\ [][NextGenerate]_vars

\* ============================================== admin operations: RenderType
RenderTypeIds == 1..MaxRenderTypes
GenerationModes == {"image_generation", "upscale"}
DefaultModes == {"generation", "upscale"}

\* An id without a row.
NoRenderType ==
    [exists |-> FALSE, generation_mode |-> None,
     is_default_for_generation |-> FALSE, is_default_for_upscale |-> FALSE]

\* The rows flagged default for a mode.
DefaultsFor(rows, mode) ==
    {i \in RenderTypeIds :
        /\ rows[i].exists
        /\ IF mode = "generation" THEN rows[i].is_default_for_generation
           ELSE rows[i].is_default_for_upscale}

\* get_default_render_type_for_generation / _for_upscale: .first() of the
\* flagged rows, 0 for None.
CurrentDefault(rows, mode) ==
    IF DefaultsFor(rows, mode) = {} THEN 0
    ELSE CHOOSE i \in DefaultsFor(rows, mode) :
            \A j \in DefaultsFor(rows, mode) : i <= j

WithFlag(rows, i, mode, value) ==
    IF mode = "generation"
    THEN [rows EXCEPT ![i].is_default_for_generation = value]
    ELSE [rows EXCEPT ![i].is_default_for_upscale = value]

\* Faulty variant: the current default keeps its flag.
WithoutCurrentDefault_Kept(rows, mode) == rows

\* if current_default: current_default.is_default_for_<mode> = False
WithoutCurrentDefault(rows, mode) ==
    IF CurrentDefault(rows, mode) = 0 THEN rows
    ELSE WithFlag(rows, CurrentDefault(rows, mode), mode, FALSE)

\* The generation_mode a row must have to become the default of a mode.
ModeOf(mode) == IF mode = "generation" THEN "image_generation" ELSE "upscale"

\* crud.create_render_type: the flags take the columns' default, False; the
\* row gets the lowest id that has no row.
CreateRenderType(i, generation_mode) ==
    /\ ~render_types[i].exists
    /\ \A j \in RenderTypeIds : j < i => render_types[j].exists
    /\ render_types' = [render_types EXCEPT
          ![i] = [exists |-> TRUE, generation_mode |-> generation_mode,
                  is_default_for_generation |-> FALSE,
                  is_default_for_upscale |-> FALSE]]
    /\ admin_log' = [op |-> "create", id |-> i]
    /\ UNCHANGED <<instances, selection, styles, resolution, gen, streamVars, moreVars>>

\* crud.update_render_type: the flags are not among the fields it writes.
UpdateRenderType(i, generation_mode) ==
    /\ render_types[i].exists
    /\ render_types' = [render_types EXCEPT ![i].generation_mode = generation_mode]
    /\ admin_log' = [op |-> "update", id |-> i]
    /\ UNCHANGED <<instances, selection, styles, resolution, gen, streamVars, moreVars>>

\* crud.set_default_render_type_for_mode: nothing for a row that is missing
\* or of the other generation mode.
SetDefaultRenderTypeForMode(i, mode) ==
    /\ render_types' =
          IF ~render_types[i].exists
                \/ render_types[i].generation_mode # ModeOf(mode)
          THEN render_types
          ELSE WithFlag(WithoutCurrentDefault(render_types, mode), i, mode, TRUE)
    /\ admin_log' = [op |-> "set_default", id |-> i]
    /\ UNCHANGED <<instances, selection, styles, resolution, gen, streamVars, moreVars>>

\* crud.delete_render_type
DeleteRenderType(i) ==
    /\ render_types[i].exists
    /\ render_types' = [render_types EXCEPT ![i] = NoRenderType]
    /\ admin_log' = [op |-> "delete", id |-> i]
    /\ UNCHANGED <<instances, selection, styles, resolution, gen, streamVars, moreVars>>

InitAdmin ==
    /\ StreamInit
    /\ instances = <<>>
    /\ selection = <<>>
    /\ styles = <<>>
    /\ resolution = <<>>
    /\ render_types = [i \in RenderTypeIds |-> NoRenderType]
    /\ gen = <<>>
    /\ admin_log = NoAdmin
    /\ catalog = <<>>
    /\ assembly = <<>>
    /\ execution = <<>>
    /\ history = <<>>

NextAdmin ==
    \/ \E i \in RenderTypeIds, m \in GenerationModes : CreateRenderType(i, m)
    \/ \E i \in RenderTypeIds, m \in GenerationModes : UpdateRenderType(i, m)
    \/ \E i \in RenderTypeIds, mode \in DefaultModes : SetDefaultRenderTypeForMode(i, mode)
    \/ \E i \in RenderTypeIds : DeleteRenderType(i)

SpecAdmin == InitAdmin /\ [][NextAdmin]_vars

\* ---------------------------------------------------------------- SpecTools
\* tools/list over a configuration that the admin operations change.

\* admin operations that change the configuration in one behaviour
MaxConfigChanges == 3

\* order_by(models.RenderType.name)
RenderTypeOrder == <<"rtA", "rtB">>

\* A RenderType name without a row.
NoCatalogRenderType ==
    [exists |-> FALSE, is_visible |-> FALSE, generation_mode |-> None]

\* models.DescriptionSettings(id=1): both nullable columns are null (0 is
\* the null instance id).
NewDescriptionSettings ==
    [exists |-> TRUE, ollama_instance_id |-> 0, model_name |-> None]

\* The module-level schema objects of schemas.py as imported by mcp_routes:
\* of each its name, the enum keys the handler may set (<<>> for a key that
\* is not there) and whether it has an outputSchema.
ModuleSchemas ==
    [name \in {"generate_image", "upscale_image", "describe_image",
               "generate_prompt"} |->
        [name |-> name, style_names |-> <<>>, render_type |-> <<>>,
         upscale_type |-> <<>>, render_style |-> <<>>, outputSchema |-> FALSE]]

\* Faulty variant: the handler edits the module-level object itself.
SchemaAfterEdit_Shared(schema, tool_def) == tool_def

\* tool_def = copy.deepcopy(SCHEMA): the handler's edits go to the copy, the
\* module-level object stays as it was.
SchemaAfterEdit(schema, tool_def) == schema

\* What an answer depends on, as the admin pages set it.
ConfigOf(c) ==
    [render_types |-> c.render_types, styles |-> c.styles,
     allowed_styles |-> c.allowed_styles,
     ollama_instance_id |-> c.description_settings.ollama_instance_id,
     model_name |-> c.description_settings.model_name]

\* Empty tables, the schemas as imported, no tools/list answered yet.
IdleCatalog ==
    LET empty == [render_types |-> [n \in RenderTypeNames |-> NoCatalogRenderType],
                  styles |-> {}, allowed_styles |-> {},
                  description_settings |->
                      [NewDescriptionSettings EXCEPT !.exists = FALSE]]
        none == [answered |-> FALSE, config |-> ConfigOf(empty), tools |-> <<>>]
    IN  [render_types |-> empty.render_types,
         styles |-> {}, allowed_styles |-> {},
         description_settings |-> empty.description_settings,
         schemas |-> ModuleSchemas,
         changes |-> 0, reference |-> none, last |-> none]

\* Faulty variant: visible_only is ignored.
get_render_types_All(rows, visible_only) ==
    SelectSeq(RenderTypeOrder, LAMBDA n : rows[n].exists)

\* crud.get_render_types
get_render_types(rows, visible_only) ==
    SelectSeq(RenderTypeOrder,
              LAMBDA n : rows[n].exists /\ (visible_only => rows[n].is_visible))

\* [rt.name for rt in visible_render_types if rt.generation_mode == mode]
RenderTypesOfMode(rows, mode) ==
    SelectSeq(get_render_types(rows, TRUE),
              LAMBDA n : rows[n].generation_mode = mode)

\* [s.name for s in crud.get_styles(db)], and the same for the allowed styles
StyleNameList(names) == SelectSeq(StyleOrder, LAMBDA n : n \in names)

\* crud.get_description_settings: the row, inserted first when it is missing.
get_description_settings(row) ==
    IF row.exists THEN row ELSE NewDescriptionSettings

\* The four "if ...: tools.append(tool_def)" of the tools/list branch.
Advertised(c) ==
    [generate_image |-> RenderTypesOfMode(c.render_types, "image_generation") # <<>>,
     upscale_image |-> RenderTypesOfMode(c.render_types, "upscale") # <<>>,
     describe_image |->
        LET desc_settings == get_description_settings(c.description_settings)
        IN  /\ desc_settings.exists
            /\ desc_settings.ollama_instance_id # 0
            /\ desc_settings.model_name # None,
     generate_prompt |-> StyleNameList(c.allowed_styles) # <<>>]

\* tool_def of a tool once the handler has edited its copy of the schema.
ToolDef(c, name) ==
    IF name = "generate_image" THEN
        [c.schemas[name] EXCEPT
            !.style_names = IF StyleNameList(c.styles) # <<>>
                            THEN StyleNameList(c.styles) ELSE @,
            !.render_type = RenderTypesOfMode(c.render_types, "image_generation"),
            !.outputSchema = TRUE]
    ELSE IF name = "upscale_image" THEN
        [c.schemas[name] EXCEPT
            !.render_type = RenderTypesOfMode(c.render_types, "upscale"),
            !.upscale_type = RenderTypesOfMode(c.render_types, "upscale"),
            !.outputSchema = TRUE]
    ELSE IF name = "describe_image" THEN
        [c.schemas[name] EXCEPT !.outputSchema = TRUE]
    ELSE
        [c.schemas[name] EXCEPT
            !.render_style = StyleNameList(c.allowed_styles),
            !.outputSchema = TRUE]

\* result.tools of the answer, in the order of the appends
ToolDefs(c) ==
    LET order == <<"generate_image", "upscale_image", "describe_image",
                   "generate_prompt">>
        offered == SelectSeq(order, LAMBDA name : Advertised(c)[name])
    IN  [i \in 1..Len(offered) |-> ToolDef(c, offered[i])]

restVars == <<instances, selection, styles, resolution, render_types, gen,
              admin_log, streamVars>>

\* mcp_endpoint, method tools/list. The answer is recorded as the last one;
\* keep says whether the answer before it becomes the one that later answers
\* are compared with.
ToolsList(keep) ==
    /\ catalog' = [catalog EXCEPT
          !.description_settings = get_description_settings(@),
          !.schemas = [name \in DOMAIN @ |->
                          IF Advertised(catalog)[name]
                          THEN SchemaAfterEdit(@[name], ToolDef(catalog, name))
                          ELSE @[name]],
          !.reference = IF keep THEN catalog.last ELSE @,
          !.last = [answered |-> TRUE, config |-> ConfigOf(catalog),
                    tools |-> ToolDefs(catalog)]]
    /\ UNCHANGED <<restVars, assembly, execution, history>>

\* A tools/call of describe_image in between: run_description_task starts
\* by reading the settings.
ToolsCallDescribeImage ==
    /\ catalog' = [catalog EXCEPT
          !.description_settings = get_description_settings(@)]
    /\ UNCHANGED <<restVars, assembly, execution, history>>

\* crud.create_render_type; the name is unique.
CatalogCreateRenderType(name, is_visible, generation_mode) ==
    /\ catalog.changes < MaxConfigChanges
    /\ ~catalog.render_types[name].exists
    /\ catalog' = [catalog EXCEPT
          !.render_types[name] = [exists |-> TRUE, is_visible |-> is_visible,
                                  generation_mode |-> generation_mode],
          !.changes = @ + 1]
    /\ UNCHANGED <<restVars, assembly, execution, history>>

\* crud.update_render_type
CatalogUpdateRenderType(name, is_visible, generation_mode) ==
    /\ catalog.changes < MaxConfigChanges
    /\ catalog.render_types[name].exists
    /\ catalog' = [catalog EXCEPT
          !.render_types[name] = [exists |-> TRUE, is_visible |-> is_visible,
                                  generation_mode |-> generation_mode],
          !.changes = @ + 1]
    /\ UNCHANGED <<restVars, assembly, execution, history>>

\* crud.delete_render_type
CatalogDeleteRenderType(name) ==
    /\ catalog.changes < MaxConfigChanges
    /\ catalog.render_types[name].exists
    /\ catalog' = [catalog EXCEPT
          !.render_types[name] = NoCatalogRenderType,
          !.changes = @ + 1]
    /\ UNCHANGED <<restVars, assembly, execution, history>>

\* crud.create_style; the name is unique.
CatalogCreateStyle(name) ==
    /\ catalog.changes < MaxConfigChanges
    /\ name \notin catalog.styles
    /\ catalog' = [catalog EXCEPT !.styles = @ \cup {name}, !.changes = @ + 1]
    /\ UNCHANGED <<restVars, assembly, execution, history>>

\* crud.delete_style; the style's row of prompt_generator_allowed_styles
\* goes with it.
CatalogDeleteStyle(name) ==
    /\ catalog.changes < MaxConfigChanges
    /\ name \in catalog.styles
    /\ catalog' = [catalog EXCEPT
          !.styles = @ \ {name},
          !.allowed_styles = @ \ {name},
          !.changes = @ + 1]
    /\ UNCHANGED <<restVars, assembly, execution, history>>

\* crud.update_prompt_generator_allowed_styles(db, style_ids=...)
UpdateAllowedStyles(names) ==
    /\ catalog.changes < MaxConfigChanges
    /\ names \subseteq catalog.styles
    /\ catalog' = [catalog EXCEPT !.allowed_styles = names, !.changes = @ + 1]
    /\ UNCHANGED <<restVars, assembly, execution, history>>

\* crud.update_description_settings
UpdateDescriptionSettings(ollama_instance_id, model_name) ==
    /\ catalog.changes < MaxConfigChanges
    /\ catalog' = [catalog EXCEPT
          !.description_settings =
              [get_description_settings(@) EXCEPT
                  !.ollama_instance_id = ollama_instance_id,
                  !.model_name = model_name],
          !.changes = @ + 1]
    /\ UNCHANGED <<restVars, assembly, execution, history>>

InitTools ==
    /\ StreamInit
    /\ instances = <<>>
    /\ selection = <<>>
    /\ styles = <<>>
    /\ resolution = <<>>
    /\ render_types = <<>>
    /\ gen = <<>>
    /\ admin_log = NoAdmin
    /\ catalog = IdleCatalog
    /\ assembly = <<>>
    /\ execution = <<>>
    /\ history = <<>>

NextTools ==
    \/ \E keep \in BOOLEAN : ToolsList(keep)
    \/ ToolsCallDescribeImage
    \/ \E n \in RenderTypeNames, v \in BOOLEAN, m \in GenerationModes :
          CatalogCreateRenderType(n, v, m)
    \/ \E n \in RenderTypeNames, v \in BOOLEAN, m \in GenerationModes :
          CatalogUpdateRenderType(n, v, m)
    \/ \E n \in RenderTypeNames : CatalogDeleteRenderType(n)
    \/ \E n \in StyleNames : CatalogCreateStyle(n)
    \/ \E n \in StyleNames : CatalogDeleteStyle(n)
    \/ \E names \in SUBSET StyleNames : UpdateAllowedStyles(names)
    \/ \E i \in {0, 1}, m \in {None, "llava"} : UpdateDescriptionSettings(i, m)

SpecTools == InitTools /\ [][NextTools]_vars

\* --------------------------------------------------------------- SpecPrompt
\* The assembly of the final prompts in run_generation_task. A Python string
\* built by join is the sequence of the pieces it is concatenated from.

Separator == ", "

\* The text a template column holds: the texts of two styles differ.
TemplateText(name, column) == IF column = "" THEN "" ELSE <<name, column>>

\* positive_parts / negative_parts: the base prompt, then the template of
\* every name that crud.get_style_by_name finds, in list order.
PromptParts(base, names, templates, column) ==
    LET found == SelectSeq(names, StyleExists) IN
    <<base>> \o [i \in 1..Len(found) |->
                    TemplateText(found[i], templates[found[i]][column])]

\* Faulty variant: nothing is filtered out.
FilterNone_KeepsAll(parts) == parts

\* filter(None, parts): the falsy elements, None and "", are dropped.
FilterNone(parts) == SelectSeq(parts, LAMBDA x : x # None /\ x # "")

\* sep.join(parts)
RECURSIVE Join(_, _)
Join(sep, parts) ==
    IF parts = <<>> THEN <<>>
    ELSE IF Len(parts) = 1 THEN <<parts[1]>>
    ELSE <<parts[1], sep>> \o Join(sep, Tail(parts))

\* mcp_routes.py:173-183
AssemblePrompts(prompt, negative_prompt, names) ==
    /\ assembly.pc = "idle"
    /\ assembly' = [assembly EXCEPT
          !.pc = "assembled",
          !.prompt = prompt,
          !.negative_prompt = negative_prompt,
          !.style_names_to_apply = names,
          !.final_prompt =
              Join(Separator, FilterNone(PromptParts(prompt, names,
                                  assembly.templates, "prompt_template"))),
          !.final_negative_prompt =
              Join(Separator, FilterNone(PromptParts(negative_prompt, names,
                                  assembly.templates, "negative_prompt_template")))]
    /\ UNCHANGED <<restVars, catalog, execution, history>>

\* Style.prompt_template and Style.negative_prompt_template of each row are a
\* text of the style's own or the empty string; nothing is assembled yet.
InitPrompt ==
    /\ StreamInit
    /\ instances = <<>>
    /\ selection = <<>>
    /\ styles = <<>>
    /\ resolution = <<>>
    /\ render_types = <<>>
    /\ gen = <<>>
    /\ admin_log = NoAdmin
    /\ catalog = <<>>
    /\ assembly \in
          {[pc |-> "idle", templates |-> t, prompt |-> "",
            negative_prompt |-> "", style_names_to_apply |-> <<>>,
            final_prompt |-> <<>>, final_negative_prompt |-> <<>>] :
              t \in [StyleNames ->
                        {[prompt_template |-> p, negative_prompt_template |-> n] :
                            p \in {"", "positive"}, n \in {"", "negative"}}]}
    /\ execution = <<>>
    /\ history = <<>>

\* args.prompt is a required str, args.negative_prompt an Optional[str] = "".
NextPrompt ==
    \E prompt \in {"", "a red fox"}, negative_prompt \in {None, "", "blurry"},
       names \in StyleNameLists :
        AssemblePrompts(prompt, negative_prompt, names)

SpecPrompt == InitPrompt /\ [][NextPrompt]_vars

\* ------------------------------------------------------------ SpecExecution
\* run_workflow_and_get_image from the POST to /prompt to the end of the
\* wait on the backend's websocket, next to the backend that runs the job.

\* messages other than the job's own that the backend sends while the task
\* listens
MaxOtherMessages == 2

\* self.generation_timeout, in clock ticks
GenerationTimeout == 2

\* The backend delivers a message to the sockets that are open when it is
\* sent; nothing is kept for a socket that opens later.
Delivered(x, message) ==
    IF x.connected THEN Append(x.inbox, message) ELSE x.inbox

\* queue_response = await self._queue_prompt(workflow, client_id)
ExecQueuePrompt(outcome) ==
    /\ execution.pc = "idle"
    /\ execution' =
          IF outcome = "queued"
          THEN [execution EXCEPT !.pc = "connecting", !.job = "pending"]
          ELSE IF outcome = "no_prompt_id"
          THEN [execution EXCEPT !.pc = "raised",
                   !.raised = "WorkflowExecutionError: no prompt_id"]
          ELSE [execution EXCEPT !.pc = "raised",
                   !.raised = "ComfyUIConnectionError: queue prompt"]
    /\ UNCHANGED <<restVars, catalog, assembly, history>>

\* async with websockets.connect(ws_url) as websocket
ExecConnect(ok) ==
    /\ execution.pc = "connecting"
    /\ execution' =
          IF ok THEN [execution EXCEPT !.pc = "listening", !.connected = TRUE]
          ELSE [execution EXCEPT !.pc = "raised",
                   !.raised = "ComfyUIConnectionError: websocket"]
    /\ UNCHANGED <<restVars, catalog, assembly, history>>

\* One turn of the loop: message_data = await websocket.recv(), then break
\* when the message is the end of the task's own prompt (type executing,
\* node null, its prompt_id), or continue.
ExecRecv ==
    /\ execution.pc = "listening"
    /\ execution.inbox # <<>>
    /\ execution' =
          IF /\ Head(execution.inbox).type = "executing"
             /\ Head(execution.inbox).node = None
             /\ Head(execution.inbox).own_prompt
          THEN [execution EXCEPT !.pc = "history", !.inbox = Tail(@),
                                 !.connected = FALSE]
          ELSE [execution EXCEPT !.inbox = Tail(@)]
    /\ UNCHANGED <<restVars, catalog, assembly, history>>

\* Time passes while the task, between the POST and the end of the wait,
\* has nothing to read.
ExecTick ==
    /\ execution.pc \in {"connecting", "listening"}
    /\ execution.inbox = <<>>
    /\ execution.clock < GenerationTimeout
    /\ execution' = [execution EXCEPT !.clock = @ + 1]
    /\ UNCHANGED <<restVars, catalog, assembly, history>>

\* asyncio.timeout(self.generation_timeout) expires: TimeoutError, turned
\* into WorkflowExecutionError.
ExecTimeout ==
    /\ execution.pc \in {"connecting", "listening"}
    /\ execution.inbox = <<>>
    /\ execution.clock = GenerationTimeout
    /\ execution' = [execution EXCEPT !.pc = "raised", !.connected = FALSE,
          !.raised = "WorkflowExecutionError: Generation timed out"]
    /\ UNCHANGED <<restVars, catalog, assembly, history>>

\* The backend takes the job from its queue and reports the node it runs.
BackendStartsJob ==
    /\ execution.job = "pending"
    /\ execution' = [execution EXCEPT
          !.job = "running",
          !.inbox = Delivered(execution,
              [type |-> "executing", node |-> "node", own_prompt |-> TRUE])]
    /\ UNCHANGED <<restVars, catalog, assembly, history>>

\* The backend finishes the job and sends its terminal notification,
\* {"type": "executing", "data": {"node": null, "prompt_id": prompt_id}}.
BackendFinishesJob ==
    /\ execution.job = "running"
    /\ execution' = [execution EXCEPT
          !.job = "done", !.finished_at = execution.clock,
          !.inbox = Delivered(execution,
              [type |-> "executing", node |-> None, own_prompt |-> TRUE])]
    /\ UNCHANGED <<restVars, catalog, assembly, history>>

\* The backend sends something else.
BackendSendsOther(message) ==
    /\ execution.pc = "listening"
    /\ execution.others < MaxOtherMessages
    /\ execution' = [execution EXCEPT
          !.others = @ + 1, !.inbox = Delivered(execution, message)]
    /\ UNCHANGED <<restVars, catalog, assembly, history>>

InitExecution ==
    /\ StreamInit
    /\ instances = <<>>
    /\ selection = <<>>
    /\ styles = <<>>
    /\ resolution = <<>>
    /\ render_types = <<>>
    /\ gen = <<>>
    /\ admin_log = NoAdmin
    /\ catalog = <<>>
    /\ assembly = <<>>
    /\ execution =
          [pc |-> "idle", job |-> "none", connected |-> FALSE, inbox |-> <<>>,
           clock |-> 0, finished_at |-> GenerationTimeout + 1, others |-> 0,
           raised |-> None]
    /\ history = <<>>

\* What else arrives on the socket: the end of another prompt, a status
\* message, a frame that is not JSON.
NextExecution ==
    \/ \E outcome \in {"queued", "no_prompt_id", "error"} : ExecQueuePrompt(outcome)
    \/ \E ok \in BOOLEAN : ExecConnect(ok)
    \/ ExecRecv
    \/ ExecTick
    \/ ExecTimeout
    \/ BackendStartsJob
    \/ BackendFinishesJob
    \/ \E type \in {"executing", "status", "not json"} :
          BackendSendsOther([type |-> type, node |-> None, own_prompt |-> FALSE])

SpecExecution == InitExecution /\ [][NextExecution]_vars

\* -------------------------------------------------------------- SpecHistory
\* ComfyUIClient._get_history, one GET /history/{prompt_id} per step.

HISTORY_MAX_RETRIES == 10

\* Faulty variant: a transport or status failure is retried like a body
\* without the prompt id.
HistoryAfter_RetriesAll(h, reply) ==
    LET seen == [h EXCEPT !.attempt = @ + 1, !.responses = Append(@, reply)]
    IN  IF reply = "found"
        THEN [seen EXCEPT !.pc = "returned", !.result = "history[prompt_id]"]
        ELSE IF reply \in {"missing", "not_json", "RequestError", "HTTPStatusError"}
        THEN seen
        ELSE [seen EXCEPT !.pc = "raised", !.raised = "TypeError"]

\* One turn of the for loop of _get_history: the GET, and what the body of
\* the loop does with its response. The JSON body holds the prompt id
\* (return), lacks it or is not JSON (go on to the sleep), the transport
\* fails or the status is an error (ComfyUIConnectionError), or the JSON body
\* is a value that "prompt_id in history" cannot be asked of.
HistoryAfter(h, reply) ==
    LET seen == [h EXCEPT !.attempt = @ + 1, !.responses = Append(@, reply)]
    IN  IF reply = "found"
        THEN [seen EXCEPT !.pc = "returned", !.result = "history[prompt_id]"]
        ELSE IF reply \in {"missing", "not_json"} THEN seen
        ELSE IF reply \in {"RequestError", "HTTPStatusError"}
        THEN [seen EXCEPT !.pc = "raised", !.raised = "ComfyUIConnectionError"]
        ELSE [seen EXCEPT !.pc = "raised", !.raised = "TypeError"]

\* for attempt in range(HISTORY_MAX_RETRIES): one more turn
HistoryRequest(reply) ==
    /\ history.pc = "loop"
    /\ history.attempt < HISTORY_MAX_RETRIES
    /\ history' = HistoryAfter(history, reply)
    /\ UNCHANGED <<restVars, catalog, assembly, execution>>

\* The range is used up: raise WorkflowExecutionError.
HistoryExhausted ==
    /\ history.pc = "loop"
    /\ history.attempt >= HISTORY_MAX_RETRIES
    /\ history' = [history EXCEPT !.pc = "raised",
                                  !.raised = "WorkflowExecutionError"]
    /\ UNCHANGED <<restVars, catalog, assembly, execution>>

InitHistory ==
    /\ StreamInit
    /\ instances = <<>>
    /\ selection = <<>>
    /\ styles = <<>>
    /\ resolution = <<>>
    /\ render_types = <<>>
    /\ gen = <<>>
    /\ admin_log = NoAdmin
    /\ catalog = <<>>
    /\ assembly = <<>>
    /\ execution = <<>>
    /\ history = [pc |-> "loop", attempt |-> 0, responses |-> <<>>,
                  result |-> None, raised |-> None]

NextHistory ==
    \/ \E reply \in {"found", "missing", "not_json", "RequestError",
                     "HTTPStatusError", "not_a_container"} :
          HistoryRequest(reply)
    \/ HistoryExhausted

\* The loop is not held up: each GET has a timeout (self.http_timeout) and
\* the sleep between two turns ends.
FairHistory == InitHistory /\ [][NextHistory]_vars /\ WF_vars(NextHistory)

\* ================================================================== claims
MethodCount(p, method) == Cardinality({i \in DOMAIN p : p[i].method = method})

Terminated(s) == tasks[s].pc \in {"done", "crashed"}

RowsOf(s) == {i \in DOMAIN generation_logs : generation_logs[i].stream = s}

\* C1: every task behind a stream/start ends having published exactly one
\* stream/end, after at most one stream/chunk, however it ends.
C1_ExactlyOneStreamEnd ==
    \A s \in StreamIds :
        Terminated(s) =>
            /\ MethodCount(published[s], "stream/end") = 1
            /\ MethodCount(published[s], "stream/chunk") <= 1

\* C2: once the task of a stream has published its outcome and finished, every
\* caller socket that subscribed to the announced id and is still open holds
\* the outcome chunk, whenever it subscribed.
C2_OutcomeReachesSubscriber ==
    \A w \in SocketIds :
        (sockets[w].state = "open" /\ tasks[sockets[w].stream].pc = "done") =>
            \E i \in DOMAIN sockets[w].inbox :
                sockets[w].inbox[i].method = "stream/chunk"

C4_OneLogRowPerCall ==
    \A s \in StreamIds :
        (tasks[s].pc = "done" /\ ~tasks[s].log_error) =>
            Cardinality(RowsOf(s)) = 1

\* C5: a GenerationLog row belongs to a generate_image or upscale_image call
\* whose chunk is published; it says SUCCESS exactly when that chunk carries a
\* result, and FAILED with the chunk's error message exactly when it carries an
\* error.
C5_LogStatusMatchesChunk ==
    \A i \in DOMAIN generation_logs :
        LET row == generation_logs[i]
            p == published[row.stream]
        IN
        /\ row.tool \in {"generate_image", "upscale_image"}
        /\ Len(p) >= 1
        /\ p[1].method = "stream/chunk"
        /\ row.status = "SUCCESS" <=> p[1].kind = "result"
        /\ row.status = "FAILED" <=> p[1].kind = "error"
        /\ p[1].kind = "error" => row.error_message = p[1].message
        /\ p[1].kind = "result" => row.error_message = None

\* A successful generate_image has its row and its result chunk.
C5_Witness ==
    \E i \in DOMAIN generation_logs :
        /\ generation_logs[i].status = "SUCCESS"
        /\ published[generation_logs[i].stream][1].kind = "result"

JsonRpcCodes == {-32700, -32601, -32602, -32000, -32603}

\* C9: whatever the request, the handler answers with a JSON-RPC result (or the
\* stream/start notification) or with a JSON-RPC error of the taxonomy.
C9_NoExceptionEscapes ==
    \/ response.kind \in {"none", "result", "stream/start"}
    \/ response.kind = "error" /\ response.code \in JsonRpcCodes

\* C10: a rejected request gets the one code of its cause: -32700 for an
\* unparsable body, -32601 for an unknown method, and for a tools/call -32602
\* when validation failed, -32000 for any other ValueError, -32603 for the rest.
C10_OneCodePerCause ==
    /\ response.body = "unparsable" =>
          response.kind = "error" /\ response.code = -32700
    /\ (response.body = "envelope" /\ response.method \notin {"tools/list", "tools/call"}) =>
          response.kind = "error" /\ response.code = -32601
    /\ (response.method = "tools/call" /\ response.raised # None) =>
          /\ response.kind = "error"
          /\ response.code =
                CASE response.raised = "ValidationError" -> -32602
                  [] response.raised = "ValueError" -> -32000
                  [] OTHER -> -32603
    /\ response.kind = "error" =>
          \/ response.body = "unparsable"
          \/ response.method \notin {"tools/list", "tools/call"}
          \/ response.method = "tools/call" /\ response.raised # None

\* A tools/call whose arguments fail validation was answered with -32602.
C10_Witness ==
    /\ response.method = "tools/call"
    /\ response.raised = "ValidationError"
    /\ response.code = -32602

CandidatePosition(inst) ==
    CHOOSE k \in DOMAIN selection.candidates : selection.candidates[k] = inst

Answered == {k \in DOMAIN selection.queue_sizes : selection.queue_sizes[k].kind = "size"}

\* C6: the instance returned is an active compatible candidate whose probe
\* answered, no answered candidate reports a smaller queue, and of the answered
\* candidates reporting the same queue it is the first in candidate order,
\* whatever order the probes completed in.
C6_FirstMinimalAnswered ==
    selection.pc = "returned" =>
        \E k \in Answered :
            LET e == selection.queue_sizes[k] IN
            /\ e.instance = selection.selected
            /\ instances[e.instance].is_active
            /\ \E c \in DOMAIN selection.candidates : selection.candidates[c] = e.instance
            /\ \A j \in Answered :
                  LET f == selection.queue_sizes[j] IN
                  /\ e.size <= f.size
                  /\ f.size = e.size =>
                        CandidatePosition(e.instance) <= CandidatePosition(f.instance)

\* Two candidates answered with the same smallest queue, a third was
\* unreachable, and the first of the two was returned.
C6_Witness ==
    /\ selection.pc = "returned"
    /\ \E j, k \in Answered :
          /\ j # k
          /\ selection.queue_sizes[j].size = selection.queue_sizes[k].size
          /\ selection.queue_sizes[j].instance = selection.selected
          /\ \A m \in Answered :
                selection.queue_sizes[j].size <= selection.queue_sizes[m].size
    /\ \E k \in DOMAIN selection.queue_sizes : selection.queue_sizes[k].kind = "inf"

\* C7: with candidates to probe, selection returns whenever a candidate has
\* answered, and it raises exactly when every probe ended in a connection
\* error, with the ValueError of that case.
C7_FailsOnlyWhenAllUnreachable ==
    (selection.pc \in {"returned", "raised"} /\ selection.candidates # <<>>) =>
        /\ Answered # {} => selection.pc = "returned"
        /\ selection.pc = "raised" <=>
              /\ selection.pending = {}
              /\ \A k \in DOMAIN selection.queue_sizes :
                    selection.queue_sizes[k].kind = "inf"
        /\ selection.pc = "raised" =>
              selection.error = "ValueError: Could not connect to any compatible ComfyUI servers."

DeclaringStyles ==
    {resolution.applied[i] : i \in DOMAIN resolution.applied} \cap
    {n \in StyleNames : styles[n].compatible_render_types # {}}

\* C8: resolving the render type for a style list and an initial render type
\* ends either in a domain error or in a render type that every applied style
\* declaring a compatibility set is compatible with.
C8_CompatibleOrError ==
    resolution.pc = "resolved" =>
        \/ resolution.raised # None
        \/ \A n \in DeclaringStyles :
              resolution.render_type_name \in styles[n].compatible_render_types

\* C11: a failing GenerationLog insert stays inside _log_generation_result:
\* the step that meets it still publishes stream/end and writes no row, the
\* chunk published before it stays as it was, and the task goes on to
\* unregister the stream id and close its database session.
C11_LogFailureContained ==
    /\ [](\A s \in StreamIds :
            tasks[s].log_error =>
                /\ tasks[s].pc \in {"teardown", "done"}
                /\ Len(published[s]) = 2
                /\ published[s][1] =
                      ChunkFor(s, tasks[s].log_data.error_message)
                /\ published[s][2] = StreamEnd(s)
                /\ tasks[s].pc = "done" => tasks[s].db = "closed")
    /\ [][\A s \in StreamIds :
            (tasks'[s].log_error /\ ~tasks[s].log_error) =>
                /\ published'[s] = Append(published[s], StreamEnd(s))
                /\ generation_logs' = generation_logs]_vars
    /\ [][\A s \in StreamIds :
            (tasks[s].log_error /\ tasks[s].pc = "teardown"
                /\ tasks'[s].pc # "teardown") =>
                /\ tasks'[s].pc = "done"
                /\ active_connections'[s] = 0]_vars

\* A generate_image task whose insert failed has sent its result and the end
\* of the stream and is through its finally block.
C11_Witness ==
    \E s \in StreamIds :
        /\ tasks[s].log_error
        /\ tasks[s].pc = "done"
        /\ tasks[s].db = "closed"
        /\ published[s] = <<StreamChunkResult(s), StreamEnd(s)>>
        /\ RowsOf(s) = {}

\* C12: a stream id is used once.  No two tasks share one, and once its task
\* has published stream/end and unregistered it, nothing more is published
\* under it and no socket is registered under it.
C12_NoReentry ==
    /\ Cardinality({s \in StreamIds : tasks[s].pc # "absent"}) = nstreams
    /\ \A s \in StreamIds :
          tasks[s].pc = "done" =>
              /\ published[s][Len(published[s])] = StreamEnd(s)
              /\ MethodCount(published[s], "stream/end") = 1
              /\ active_connections[s] = 0

\* The step of a task that publishes: the end of its try block, or its
\* finally block.
TaskPublishes(s) ==
    \/ \E raised \in Raisable : TaskBody(s, raised)
    \/ \E db_ok \in BOOLEAN : TaskFinally(s, db_ok)

\* C13: a publish made while no socket is registered under the stream id
\* reaches no socket and leaves the registry as it is, it is made once, and
\* the task moves on; a task about to publish is never held back by the
\* registry being empty.
C13_PublishWithoutSubscriber ==
    /\ [][\A s \in StreamIds :
            (published'[s] # published[s] /\ active_connections[s] = 0) =>
                /\ sockets' = sockets
                /\ active_connections' = active_connections
                /\ Len(published'[s]) = Len(published[s]) + 1
                /\ tasks'[s].pc # tasks[s].pc]_vars
    /\ [](\A s \in StreamIds :
            (tasks[s].pc \in {"running", "finally"} /\ active_connections[s] = 0)
                => ENABLED TaskPublishes(s))

\* A task ran to its end while no client ever connected.
C13_Witness ==
    \E s \in StreamIds :
        /\ tasks[s].pc = "done"
        /\ Len(published[s]) = 2
        /\ \A w \in SocketIds : sockets[w].state = "unused"

LlmCallFailed ==
    gen.positive_call = "OllamaError" \/ gen.negative_call = "OllamaError"

AfterEnhance == {"resolve", "select", "workflow", "submit", "waiting", "collect"}

\* C14: a generate_image task one of whose enhancement calls failed has gone
\* on to render-type resolution; if it ends in an error chunk and a FAILED row,
\* the error was raised in a later phase, and if nothing later failed it ends
\* in a result chunk and a SUCCESS row.
C14_EnhancementFailureNotFatal ==
    LlmCallFailed =>
        /\ gen.pc \in AfterEnhance \cup {"finally", "done"}
        /\ gen.raised # "OllamaError"
        /\ gen.raised # None => gen.raised_at \in AfterEnhance \cup {"wait", "upscale_input"}
        /\ gen.chunk.kind = "error" <=> gen.raised # None
        /\ (gen.pc \in {"finally", "done"} /\ gen.raised = None) =>
              /\ gen.chunk = ResultChunk
              /\ gen.log_data.status = "SUCCESS"

\* The negative enhancement call failed and the image was still generated.
C14_Witness ==
    /\ gen.positive_call = "ok"
    /\ gen.negative_call = "OllamaError"
    /\ gen.pc = "done"
    /\ gen.submissions = 1
    /\ gen.chunk = ResultChunk
    /\ gen.log_data.status = "SUCCESS"

EnhancementIncomplete ==
    /\ gen.args.tool = "generate_image"
    /\ gen.args.enhance_prompt
    /\ gen.pc \notin {"idle", "enhance"}
    /\ gen.raised_at # "enhance"
    /\ ~(gen.positive_call = "ok" /\ gen.negative_call = "ok")

ContainsLlmText(prompt) == \E i \in DOMAIN prompt : prompt[i] \in {LlmPositive, LlmNegative}

\* C15: when enhancement was requested and did not complete, the final
\* prompts are the caller's prompts joined with the style templates, without
\* any text of the LLM, and llm_enhanced is false in log_data.
C15_UnenhancedWhenIncomplete ==
    EnhancementIncomplete =>
        /\ ~ContainsLlmText(gen.final_prompt)
        /\ ~ContainsLlmText(gen.final_negative_prompt)
        /\ gen.final_prompt =
              JoinParts(<<CallerPrompt>> \o
                        (IF gen.args.has_style THEN <<StyleTemplate>> ELSE <<>>))
        /\ gen.final_negative_prompt =
              JoinParts(<<gen.args.negative_prompt>> \o
                        (IF gen.args.has_style THEN <<StyleNegativeTemplate>> ELSE <<>>))
        /\ ~gen.log_data.llm_enhanced

TimedOut == gen.raised = "WorkflowExecutionError: Generation timed out"

\* C18: a task POSTs its workflow at most once and selects an instance at most
\* once; when the wait runs into the generation timeout the task ends with the
\* timeout error as its chunk and a FAILED row, after that one submission to
\* that one instance.
C18_SubmittedAtMostOnce ==
    /\ gen.submissions <= 1
    /\ gen.selections <= 1
    /\ TimedOut =>
          /\ gen.pc \in {"finally", "done"}
          /\ gen.raised_at = "wait"
          /\ gen.chunk = ErrorChunk(gen.raised)
          /\ gen.log_data.status = "FAILED"
          /\ gen.log_data.error_message = gen.raised
          /\ gen.submissions = 1
          /\ gen.selections = 1

\* A task that timed out is through its finally block.
C18_Witness ==
    /\ TimedOut
    /\ gen.pc = "done"
    /\ gen.logged
    /\ gen.submissions = 1

\* C17: when a selection for a resolved render type finds no candidate, it
\* raises a ValueError whose message is formatted with the render type, and
\* it has sent no probe.
C17_EmptyCandidatesNamesRenderType ==
    (selection.pc = "raised" /\ selection.candidates = <<>>
        /\ selection.render_type # None) =>
        /\ selection.error \in
              {"ValueError: No active ComfyUI servers configured.",
               "ValueError: No active server is compatible with render type."}
        /\ selection.queue_sizes = <<>>
        /\ \E k \in DOMAIN selection.error_args :
              selection.error_args[k] = selection.render_type

\* C20: every candidate of a selection, and the instance it returns, has a
\* row that is active and lists the render type asked for (or none was asked
\* for), whatever admin operation came last before the selection started.
C20_SelectedIsActiveAndCompatible ==
    LET Usable(i) ==
            /\ instances[i].exists
            /\ instances[i].is_active
            /\ selection.render_type = None
                  \/ selection.render_type \in instances[i].compatible
    IN
    /\ \A k \in DOMAIN selection.candidates : Usable(selection.candidates[k])
    /\ selection.pc = "returned" => Usable(selection.selected)

\* Instance 1 was deactivated, then a selection started and returned another
\* instance.
C20_Witness ==
    /\ admin_log = [op |-> "toggle", id |-> 1]
    /\ instances[1].exists
    /\ ~instances[1].is_active
    /\ selection.pc = "returned"
    /\ selection.selected # 1

\* C19: whatever admin operations were carried out on the render types, at
\* most one row is flagged default for image generation and at most one is
\* flagged default for upscale.
C19_AtMostOneDefaultPerMode ==
    \A mode \in DefaultModes : Cardinality(DefaultsFor(render_types, mode)) <= 1

\* The default for image generation was just set on a row while another
\* image-generation row exists, and a row is the default for upscale.
C19_Witness ==
    /\ admin_log.op = "set_default"
    /\ DefaultsFor(render_types, "generation") = {admin_log.id}
    /\ \E j \in RenderTypeIds :
          /\ j # admin_log.id
          /\ render_types[j].exists
          /\ render_types[j].generation_mode = "image_generation"
    /\ DefaultsFor(render_types, "upscale") # {}

VisibleOfMode(config, mode) ==
    {n \in RenderTypeNames :
        /\ config.render_types[n].exists
        /\ config.render_types[n].is_visible
        /\ config.render_types[n].generation_mode = mode}

\* The tool definitions of an answer that carry a name.
ToolsNamed(answer, name) ==
    {i \in DOMAIN answer.tools : answer.tools[i].name = name}

Elements(seq) == {seq[i] : i \in DOMAIN seq}

RECURSIVE SelectedAfter(_, _, _)
RECURSIVE TriggersSwitch(_, _, _)
SelectedAfter(initial, names, n) ==
    LET switching == {i \in 1..n : TriggersSwitch(initial, names, i)} IN
    IF switching = {} THEN initial
    ELSE styles[names[CHOOSE i \in switching : \A j \in switching : j <= i]]
            .default_render_type

\* The i-th name is a style with a fallback render type, and either nothing
\* is selected before it or what is selected is not among its compatible
\* render types.
TriggersSwitch(initial, names, i) ==
    /\ names[i] \in StyleNames
    /\ styles[names[i]].default_render_type # None
    /\ LET before == SelectedAfter(initial, names, i - 1) IN
          \/ before = None
          \/ before \notin styles[names[i]].compatible_render_types

C24_EmptySetLeavesSelection ==
    resolution.pc = "resolved" =>
        \A i \in DOMAIN resolution.applied :
            LET name == resolution.applied[i]
                before == ResolveFold(resolution.render_type,
                                      SubSeq(resolution.applied, 1, i - 1), 1)
                after == ResolveFold(resolution.render_type,
                                     SubSeq(resolution.applied, 1, i), 1)
            IN  (name \in StyleNames /\ before # None
                    /\ styles[name].compatible_render_types = {})
                => after = before

\* The texts a final prompt is to consist of: the base prompt and, for each
\* name of the list in order, the style's text of the column; a name
\* without a row and an empty text count as nothing.
ExpectedTexts(base, names, column) ==
    LET fragment(i) ==
            IF names[i] \in StyleNames
            THEN TemplateText(names[i], assembly.templates[names[i]][column])
            ELSE ""
        all == <<base>> \o [i \in 1..Len(names) |-> fragment(i)]
    IN  SelectSeq(all, LAMBDA x : x # "" /\ x # None)

\* pieces is texts with one separator between neighbours: no empty piece, no
\* separator at either end, no two separators in a row.
IsJoinOf(pieces, texts) ==
    /\ Len(pieces) = (IF texts = <<>> THEN 0 ELSE 2 * Len(texts) - 1)
    /\ \A i \in DOMAIN pieces :
          IF i % 2 = 1 THEN pieces[i] = texts[(i + 1) \div 2]
          ELSE pieces[i] = Separator
    /\ \A i \in DOMAIN pieces : pieces[i] # "" /\ pieces[i] # None

\* C25: the final positive prompt is the base prompt followed by the prompt
\* template of each applied style in list order, joined with ", ", an empty
\* template or base prompt and a name without a row being left out so that
\* no empty element and no doubled separator appears; the final negative
\* prompt is built the same way from the negative templates.
C25_PromptsAreJoinedFragments ==
    (assembly # <<>> /\ assembly.pc = "assembled") =>
        /\ IsJoinOf(assembly.final_prompt,
                    ExpectedTexts(assembly.prompt, assembly.style_names_to_apply,
                                  "prompt_template"))
        /\ IsJoinOf(assembly.final_negative_prompt,
                    ExpectedTexts(assembly.negative_prompt,
                                  assembly.style_names_to_apply,
                                  "negative_prompt_template"))

\* An empty base prompt and an empty first template are left out of the
\* positive prompt while the negative prompt has all three texts.
C25_Witness ==
    /\ assembly # <<>>
    /\ assembly.pc = "assembled"
    /\ assembly.prompt = ""
    /\ assembly.style_names_to_apply = <<"s1", "s2">>
    /\ assembly.templates["s1"].prompt_template = ""
    /\ assembly.final_prompt = <<TemplateText("s2", "positive")>>
    /\ Len(assembly.final_negative_prompt) = 5

\* C26: when the backend finishes a submitted job before the generation
\* timeout, the task does not end in a timeout, however the job's completion
\* and the task's connecting to the notification socket interleave.
C26_FinishedJobIsObserved ==
    (execution # <<>> /\ execution.job = "done"
        /\ execution.finished_at < GenerationTimeout)
    => execution.raised # "WorkflowExecutionError: Generation timed out"

\* C27: when the handler of a websocket leaves and unregisters, a newer
\* websocket that has registered under the same stream id since stays
\* registered (and so goes on receiving the stream's messages).
C27_DisconnectRemovesOwnRegistration ==
    [][\A w \in SocketIds :
          (sockets[w].state = "closed" /\ sockets'[w].state = "gone") =>
              LET s == sockets[w].stream IN
              (active_connections[s] # w /\ active_connections[s] # 0)
                  => active_connections'[s] = active_connections[s]]_vars

\* C28: whatever admin operations were carried out, a render type flagged as
\* the default for image generation has generation mode image_generation and
\* one flagged as the default for upscale has generation mode upscale.
C28_DefaultsHaveTheirMode ==
    \A i \in DOMAIN render_types :
        render_types[i].exists =>
            /\ render_types[i].is_default_for_generation
                  => render_types[i].generation_mode = "image_generation"
            /\ render_types[i].is_default_for_upscale
                  => render_types[i].generation_mode = "upscale"

\* C29: a tools/call answered with a JSON-RPC error schedules no background
\* task, announces no stream id and leaves the connection registry as it
\* was; one answered with stream/start schedules exactly one background
\* task, under the stream id it announces, and leaves the registry as it was.
C29_ErrorSchedulesNothing ==
    [][(response' # response /\ response'.method = "tools/call") =>
          /\ response'.kind = "error" =>
                /\ response'.stream_id = 0
                /\ nstreams' = nstreams
                /\ tasks' = tasks
                /\ active_connections' = active_connections
          /\ response'.kind = "stream/start" =>
                /\ response'.stream_id = nstreams + 1
                /\ nstreams' = nstreams + 1
                /\ tasks[response'.stream_id].pc = "absent"
                /\ tasks'[response'.stream_id].pc = "scheduled"
                /\ tasks'[response'.stream_id].tool = response'.tool
                /\ \A s \in StreamIds :
                      s # response'.stream_id => tasks'[s] = tasks[s]
                /\ active_connections' = active_connections]_vars

\* An error answer given while a task is scheduled and a websocket is
\* registered under its stream id.
C29_Witness ==
    /\ response.method = "tools/call"
    /\ response.kind = "error"
    /\ response.code = -32603
    /\ nstreams >= 1
    /\ tasks[1].pc = "scheduled"
    /\ active_connections[1] # 0

\* C30: _get_history ends, after at most 10 GETs: it returns at the first
\* response that holds the prompt id, it raises the connection error at the
\* first transport or HTTP-status failure without a further GET, and it
\* raises the execution error once 10 responses in a row lacked the prompt id.
C30_HistoryTerminates ==
    /\ <>(history.pc # "loop")
    /\ [](/\ history.attempt <= 10
          /\ Len(history.responses) = history.attempt
          /\ \A i \in 1..(history.attempt - 1) :
                history.responses[i] \in {"missing", "not_json"}
          /\ history.pc = "returned" =>
                /\ history.responses[history.attempt] = "found"
                /\ history.result = "history[prompt_id]"
          /\ history.raised = "ComfyUIConnectionError" =>
                history.responses[history.attempt]
                    \in {"RequestError", "HTTPStatusError"}
          /\ (history.attempt >= 1
                /\ history.responses[history.attempt]
                      \in {"RequestError", "HTTPStatusError"})
                => history.raised = "ComfyUIConnectionError"
          /\ (history.attempt >= 1
                /\ history.responses[history.attempt] = "found")
                => history.pc = "returned"
          /\ history.raised = "WorkflowExecutionError" =>
                /\ history.attempt = 10
                /\ history.responses[10] \in {"missing", "not_json"})

\* Ten responses without the prompt id, some of them not JSON, and the
\* execution error after them.
C30_Witness ==
    /\ history # <<>>
    /\ history.raised = "WorkflowExecutionError"
    /\ history.attempt = 10
    /\ history.responses[3] = "not_json"
    /\ history.responses[10] = "missing"

====
